---- MODULE Spec2Model ----
(***************************************************************************)
(* cycle-store: a tree of Stores, each holding an insertion-ordered Map of *)
(* items and an object of named child Stores, with an event broker per     *)
(* Store and a reactive read (get) built from rxjs combinators.            *)
(*                                                                         *)
(* A Store is a position in the sequence data (the module-level WeakMap    *)
(* of index.js): data[s] is the meta record {children, parent, items} of   *)
(* Store s.  A name is the result of name.split('/'): a non-empty sequence *)
(* of segments; a value that is not a string is NotAString.                *)
(***************************************************************************)
EXTENDS Integers, Sequences, FiniteSets, TLC

\* ------------------------------------------------------------- bounds
MaxNodes == 3
MaxGets == 1
MaxSubs == 1

\* The values stored: two distinct ones tell a new value from an old one.
Val == {1, 2}

\* ---------------------------------------------------------- constants
NoStore == 0
SET == "item-set"
REMOVED == "item-removed"
CLEARED == "store-cleared"
CREATED == "store-added"
\* The message of index.js:76 (the name is in backquotes there).
NameError == "Parameter name must be a non-empty string"
PathError == "Path does not resolve to a Store."
ReadonlyError == "Ancestor Stores are read-only."
AncestorError == "The argument provided must be a Store instance."
\* An argument of the constructor that is defined and is no Store.
NotAStore == -1
\* Reading a property of undefined: what data.get(x).items throws when x is
\* no key of data.
TypeError == "TypeError"
NoError == ""
NotAString == <<>>

VARIABLES
    data,      \* the WeakMap: Store -> {children, parent, items}
    call,      \* the last call made on the API and how it ended
    emitted,   \* the events the last call emitted, in emission order
    gets,      \* the Observables returned by get so far
    subs,      \* the subscriptions made to them
    views      \* the Stores the caller holds a readonly proxy of

vars == <<data, call, emitted, gets, subs, views>>

Stores == 1..Len(data)

\* ------------------------------------------------------- Map of items
\* A Map keeps its entries in insertion order; set on an existing key keeps
\* the entry's position.
RECURSIVE IndexOf(_, _)
IndexOf(entries, name) ==
    IF entries = <<>> THEN 0
    ELSE IF entries[Len(entries)].name = name /\ IndexOf(SubSeq(entries, 1, Len(entries) - 1), name) = 0
         THEN Len(entries)
         ELSE IndexOf(SubSeq(entries, 1, Len(entries) - 1), name)

MapHas(items, name) == IndexOf(items, name) # 0

MapGet(items, name) == items[IndexOf(items, name)].value

MapSet(items, name, value) ==
    IF MapHas(items, name)
    THEN [items EXCEPT ![IndexOf(items, name)].value = value]
    ELSE Append(items, [name |-> name, value |-> value])

MapDelete(items, name) == SelectSeq(items, LAMBDA e : e.name # name)

\* A lookup that never finds the child: every traversal creates it anew.
ChildAtNever(children, name) == NoStore

\* The names every plain object answers to without having them set, through
\* Object.prototype: constructor stands for them (toString, valueOf, ...).
ObjectPrototypeNames == {"constructor"}

\* children is a plain object, {}: children[name] is the child set under
\* name, else what Object.prototype has under name, which is defined and is
\* no Store, else undefined.
ChildAt(children, name) ==
    IF IndexOf(children, name) # 0 THEN children[IndexOf(children, name)].child
    ELSE IF name \in ObjectPrototypeNames THEN NotAStore
    ELSE NoStore

\* A constructor that drops its argument.
NewMetaOrphan(ancestor) == [children |-> <<>>, parent |-> NoStore, items |-> <<>>]

NewMeta(ancestor) == [children |-> <<>>, parent |-> ancestor, items |-> <<>>]

\* ------------------------------------------------------------- names
Blank(seg) == seg \in {"", " "}

IsString(name) == name # NotAString

\* isEmpty(trim(name)): a string with a '/' in it is never empty.
TrimIsEmpty(name) == Len(name) = 1 /\ Blank(name[1])

\* A validation without the trim: a whitespace-only name passes.
InvalidNameUntrimmed(name) == ~IsString(name) \/ name = <<"">>

InvalidName(name) == ~IsString(name) \/ TrimIsEmpty(name)

Last(s) == s[Len(s)]

Front(s) == SubSeq(s, 1, Len(s) - 1)

\* ------------------------------------------------------ path resolver
\* getChildStore: reduce over childNames from base.  Returns the data after
\* the walk, the Store reached (NoStore when it threw), the store-added
\* events emitted on the way and the error thrown.
\* A walk that creates the child without asking items.has(name).
RECURSIVE getChildStoreIgnoringItems(_, _, _, _)
getChildStoreIgnoringItems(d, store, childNames, evs) ==
    IF childNames = <<>>
    THEN [data |-> d, store |-> store, events |-> evs, error |-> NoError]
    ELSE LET name == Head(childNames)
             meta == d[store]
             found == ChildAt(meta.children, name)
             create == found = NoStore
             child == IF create THEN Len(d) + 1 ELSE found
             d2 == IF create
                   THEN Append([d EXCEPT ![store].children =
                                   Append(@, [name |-> name, child |-> child])],
                               NewMeta(store))
                   ELSE d
             evs2 == IF create
                     THEN Append(evs, [type |-> CREATED, on |-> store,
                                       name |-> name, child |-> child])
                     ELSE evs
         IN getChildStoreIgnoringItems(d2, child, Tail(childNames), evs2)

\* A walk that emits store-added on the child it has just made.
RECURSIVE getChildStoreEmittingOnChild(_, _, _, _)
getChildStoreEmittingOnChild(d, store, childNames, evs) ==
    IF childNames = <<>>
    THEN [data |-> d, store |-> store, events |-> evs, error |-> NoError]
    ELSE LET name == Head(childNames)
             meta == d[store]
             found == ChildAt(meta.children, name)
             create == found = NoStore /\ ~MapHas(meta.items, name)
             child == IF create THEN Len(d) + 1 ELSE found
             d2 == IF create
                   THEN Append([d EXCEPT ![store].children =
                                   Append(@, [name |-> name, child |-> child])],
                               NewMeta(store))
                   ELSE d
             evs2 == IF create
                     THEN Append(evs, [type |-> CREATED, on |-> child,
                                       name |-> name, child |-> child])
                     ELSE evs
         IN IF child = NoStore \/ child = NotAStore
            THEN [data |-> d2, store |-> NoStore, events |-> evs2, error |-> PathError]
            ELSE getChildStoreEmittingOnChild(d2, child, Tail(childNames), evs2)

RECURSIVE getChildStore(_, _, _, _)
getChildStore(d, store, childNames, evs) ==
    IF childNames = <<>>
    THEN [data |-> d, store |-> store, events |-> evs, error |-> NoError]
    ELSE LET name == Head(childNames)
             meta == d[store]
             found == ChildAt(meta.children, name)
             create == found = NoStore /\ ~MapHas(meta.items, name)
             child == IF create THEN Len(d) + 1 ELSE found
             d2 == IF create
                   THEN Append([d EXCEPT ![store].children =
                                   Append(@, [name |-> name, child |-> child])],
                               NewMeta(store))
                   ELSE d
             evs2 == IF create
                     THEN Append(evs, [type |-> CREATED, on |-> store,
                                       name |-> name, child |-> child])
                     ELSE evs
         IN IF child = NoStore \/ child = NotAStore
            THEN [data |-> d2, store |-> NoStore, events |-> evs2, error |-> PathError]
            ELSE getChildStore(d2, child, Tail(childNames), evs2)

\* A getPropData that walks every segment, the property included.
getPropDataWalkingAll(d, base, name) ==
    LET r == getChildStore(d, base, name, <<>>)
    IN [data |-> r.data, store |-> r.store, prop |-> Last(name),
        events |-> r.events, error |-> r.error]

\* getPropData: the last segment is the property, the others the path.
getPropData(d, base, name) ==
    LET r == getChildStore(d, base, Front(name), <<>>)
    IN [data |-> r.data, store |-> r.store, prop |-> Last(name),
        events |-> r.events, error |-> r.error]

\* ------------------------------------------------------ reactive read
\* get(name) returns merge(changes$, inherit$.takeUntil(changes$)), where
\* inherit$ is parent.get(prop).  One level of that nesting per Store of the
\* parent chain: level 1 is the resolved Store, filtered by the name as given
\* to get; level l + 1 is the parent of level l, filtered by prop.  has and
\* value are read from items when get runs.
NoValue == 0

Level(d, store, name) ==
    [store |-> store, name |-> name,
     has |-> MapHas(d[store].items, Last(name)),
     value |-> IF MapHas(d[store].items, Last(name))
               THEN MapGet(d[store].items, Last(name)) ELSE NoValue]

\* An inheritance that is not recursive: the parent's own items and no
\* farther.
ChainOfTwo(d, store, name) ==
    IF d[store].parent = NoStore
    THEN <<Level(d, store, name)>>
    ELSE <<Level(d, store, name), Level(d, d[store].parent, <<Last(name)>>)>>

RECURSIVE Chain(_, _, _)
Chain(d, store, name) ==
    IF d[store].parent = NoStore
    THEN <<Level(d, store, name)>>
    ELSE <<Level(d, store, name)>> \o Chain(d, d[store].parent, <<Last(name)>>)

\* parent.get(prop) validates prop on every Store that has a parent.
ChainError(d, store, name) ==
    IF d[store].parent # NoStore /\ InvalidName(<<Last(name)>>) THEN NameError ELSE NoError

\* A listener without the filter.
MatchesAnyName(name, evName) == TRUE

\* filter(matches({name: name})) against the event {name: prop, value}.
Matches(name, evName) == name = <<evName>>

\* A get that never starts with the value held.
StartsWithNothing(level) == FALSE

\* changes$.startWith(value), when items.has(prop) held in get.
StartsWith(level) == level.has

\* The first level that starts with a value: its takeUntil notifier fires
\* while subscribing, so no farther level is listened to.  0 when none.
RECURSIVE FirstStart(_, _)
FirstStart(chain, l) ==
    IF l > Len(chain) THEN 0
    ELSE IF StartsWith(chain[l]) THEN l
    ELSE FirstStart(chain, l + 1)

\* A get whose inherit$ is left out of the merge: only level 1 is heard.
HearsOwnStoreOnly(sub, chain, store, evName) ==
    IF sub.live >= 1 /\ chain[1].store = store /\ Matches(chain[1].name, evName)
    THEN 1 ELSE 0

\* Listeners that outlive the levels they were added for: every level of
\* the chain hears, whatever has ended it.
HearsEveryLevel(sub, chain, store, evName) ==
    LET hit == {l \in 1..Len(chain) :
                   chain[l].store = store /\ Matches(chain[l].name, evName)}
    IN IF hit = {} THEN 0 ELSE CHOOSE l \in hit : TRUE

\* The level of a subscription that hears the event, 0 when none does.
Hears(sub, chain, store, evName) ==
    LET hit == {l \in 1..sub.live :
                   chain[l].store = store /\ Matches(chain[l].name, evName)}
    IN IF hit = {} THEN 0 ELSE CHOOSE l \in hit : TRUE

\* A merge without takeUntil: the levels above stay listened to.
TakeUntilNever(live, l) == live

\* inherit$.takeUntil(changes$): a value of level l ends the levels above l.
TakeUntil(live, l) == IF l < live THEN l ELSE live

\* A subscription: of is the Observable, live the number of chain levels
\* still listened to, got the values handed to the subscriber during the call
\* in progress, local whether a value of level 1 was ever handed to it.
\* What the caller knows of the subscription's past is kept beside them:
\* fresh (the Observable was made from the items as they were when
\* subscribing), held (the levels whose Store held the key when subscribing)
\* sets (the levels whose Store has had the key set since), still (no set,
\* delete or clear has returned since subscribing) and mates (the earlier
\* subscriptions made since the last set, delete or clear).
Key(chain) == Last(chain[1].name)

LevelOf(chain, store) ==
    LET hit == {l \in 1..Len(chain) : chain[l].store = store}
    IN IF hit = {} THEN 0 ELSE CHOOSE l \in hit : TRUE

Holding(d, chain) ==
    {l \in 1..Len(chain) : MapHas(d[chain[l].store].items, Key(chain))}

\* One override state per Observable's Store, shared by its subscriptions:
\* a new subscription starts where the earlier ones of the Store stand.
NewSubscriptionShared(d, g) ==
    LET chain == gets[g]
        first == FirstStart(chain, 1)
        own == IF first = 0 THEN Len(chain) ELSE first
        others == {subs[j].live : j \in {k \in 1..Len(subs) :
                                           gets[subs[k].of][1].store = chain[1].store}}
        least == CHOOSE m \in others \cup {own} : \A n \in others \cup {own} : m <= n
    IN [of |-> g,
        live |-> least,
        got |-> IF first = 0 THEN <<>> ELSE <<chain[first].value>>,
        local |-> first = 1,
        fresh |-> chain = Chain(d, chain[1].store, chain[1].name),
        held |-> Holding(d, chain),
        sets |-> {},
        still |-> TRUE,
        mates |-> {j \in 1..Len(subs) : subs[j].still}]

NewSubscription(d, g) ==
    LET chain == gets[g]
        first == FirstStart(chain, 1)
    IN [of |-> g,
        live |-> IF first = 0 THEN Len(chain) ELSE first,
        got |-> IF first = 0 THEN <<>> ELSE <<chain[first].value>>,
        local |-> first = 1,
        fresh |-> chain = Chain(d, chain[1].store, chain[1].name),
        held |-> Holding(d, chain),
        sets |-> {},
        still |-> TRUE,
        mates |-> {j \in 1..Len(subs) : subs[j].still}]

OnItemSet(sub, store, prop, value) ==
    LET chain == gets[sub.of]
        l == Hears(sub, chain, store, prop)
        h == LevelOf(chain, store)
        heard == IF l = 0 THEN sub
                 ELSE [sub EXCEPT !.got = Append(@, value),
                                  !.live = TakeUntil(@, l),
                                  !.local = @ \/ l = 1]
    IN IF h # 0 /\ prop = Key(chain)
       THEN [heard EXCEPT !.sets = @ \cup {h}, !.still = FALSE]
       ELSE [heard EXCEPT !.still = FALSE]

\* merge(changes$, inherit$.takeUntil(changes$)) completes when both of its
\* sources have.
MergeCompletes(changesDone, inheritDone) == changesDone /\ inheritDone

\* Level l of a subscription has completed.  changes$ is
\* fromEvent(store, SET).filter(...), which has no end; inherit$ is
\* Observable.empty(), complete at once, for a Store without parent, and else
\* the level above, complete when takeUntil has ended it (l >= sub.live) or
\* when it has completed itself.
RECURSIVE Completed(_, _, _)
Completed(sub, chain, l) ==
    LET changesDone == FALSE
        inheritDone == IF l >= Len(chain) THEN TRUE
                       ELSE l >= sub.live \/ Completed(sub, chain, l + 1)
    IN MergeCompletes(changesDone, inheritDone)

\* A subscription listens to item-set only (fromEvent(store, SET)): the
\* item-removed, store-cleared and store-added events of a call reach none
\* of its listeners.
ResumedOnRemoval(sub, events) ==
    IF \E i \in 1..Len(events) :
          /\ events[i].type = REMOVED
          /\ events[i].on = gets[sub.of][1].store
          /\ events[i].name = Key(gets[sub.of])
    THEN [sub EXCEPT !.live = Len(gets[sub.of]), !.still = FALSE]
    ELSE [sub EXCEPT !.still = FALSE]

Unheard(sub, events) == [sub EXCEPT !.still = FALSE]

\* ---------------------------------------------------------- operations
\* call and emitted are what the caller and its event handlers saw of the
\* call just made; the caller forgets them (Return) before its next call.
\* ret is what the call returned: the Store of for, the receiver of set, the
\* answer of has, the Observable of get, the subscription of subscribe, and
\* for delete the Store the path resolved to.
None == [op |-> "none"]

Idle == call = None

\* before is the state the call started from; view tells a call made on a
\* readonly proxy of this from a call made on the Store this itself.
Called(op, this, name, arg, error, ret) ==
    [op |-> op, this |-> this, name |-> name, arg |-> arg, error |-> error,
     ret |-> ret, view |-> FALSE, before |-> [data |-> data, subs |-> subs]]

Throws(op, this, name, arg, error) ==
    /\ call' = Called(op, this, name, arg, error, NoStore)
    /\ emitted' = <<>>
    /\ UNCHANGED <<data, gets, subs, views>>

\* new Store(ancestor): ancestor is undefined (NoStore), a Store, or
\* something else, which is refused; the new Store is registered in no
\* children.
New(ancestor) ==
    /\ Idle
    /\ IF ancestor # NoStore /\ ancestor \notin Stores
       THEN Throws("new", NoStore, NotAString, ancestor, AncestorError)
       ELSE /\ Len(data) < MaxNodes
            /\ data' = Append(data, NewMeta(ancestor))
            /\ emitted' = <<>>
            /\ call' = Called("new", NoStore, NotAString, ancestor, NoError, Len(data) + 1)
            /\ UNCHANGED <<gets, subs, views>>

\* for(name): the whole split name is a path of child Stores.
For(this, name) ==
    /\ Idle
    /\ IF InvalidName(name) THEN Throws("for", this, name, NoValue, NameError)
       ELSE LET r == getChildStore(data, this, name, <<>>)
            IN /\ Len(r.data) <= MaxNodes
               /\ data' = r.data
               /\ emitted' = r.events
               /\ call' = Called("for", this, name, NoValue, r.error, r.store)
               /\ UNCHANGED <<gets, subs, views>>

\* A has that falls back on the parent's items.
HasResultInherited(d, this, name) ==
    /\ Len(name) = 1
    /\ \/ MapHas(d[this].items, name[1])
       \/ d[this].parent # NoStore /\ MapHas(d[d[this].parent].items, name[1])

\* has(name): the name is looked up whole, never split.
HasResult(d, this, name) == Len(name) = 1 /\ MapHas(d[this].items, name[1])

\* A has that resolves its name as get, set and delete do.
HasTraversing(this, name) ==
    /\ Idle
    /\ IF InvalidName(name) THEN Throws("has", this, name, NoValue, NameError)
       ELSE LET p == getPropData(data, this, name)
            IN /\ Len(p.data) <= MaxNodes
               /\ data' = p.data
               /\ emitted' = p.events
               /\ call' = Called("has", this, name, NoValue, p.error,
                                 p.error = NoError /\ MapHas(p.data[p.store].items, p.prop))
               /\ UNCHANGED <<gets, subs, views>>

Has(this, name) ==
    /\ Idle
    /\ IF InvalidName(name) THEN Throws("has", this, name, NoValue, NameError)
       ELSE /\ call' = Called("has", this, name, NoValue, NoError, HasResult(data, this, name))
            /\ emitted' = <<>>
            /\ UNCHANGED <<data, gets, subs, views>>

\* A set that emits its event twice.
SetEventsTwice(store, prop, value) ==
    <<[type |-> SET, on |-> store, name |-> prop, value |-> value],
      [type |-> SET, on |-> store, name |-> prop, value |-> value]>>

SetEvents(store, prop, value) ==
    <<[type |-> SET, on |-> store, name |-> prop, value |-> value]>>

Set(this, name, value) ==
    /\ Idle
    /\ IF InvalidName(name) THEN Throws("set", this, name, value, NameError)
       ELSE LET p == getPropData(data, this, name)
            IN /\ Len(p.data) <= MaxNodes
               /\ IF p.error # NoError
                  THEN /\ data' = p.data
                       /\ emitted' = p.events
                       /\ call' = Called("set", this, name, value, p.error, NoStore)
                       /\ UNCHANGED <<gets, subs, views>>
                  ELSE                        /\ data' = [p.data EXCEPT ![p.store].items = MapSet(@, p.prop, value)]
                       /\ emitted' = p.events \o SetEvents(p.store, p.prop, value)
                       /\ subs' = [i \in 1..Len(subs) |->
                                      OnItemSet(subs[i], p.store, p.prop, value)]
                       /\ call' = Called("set", this, name, value, NoError, this)
                       /\ UNCHANGED <<gets, views>>

\* A delete whose event also reaches the parent of the resolved Store.
DeleteEventsBubbling(d, store, prop) ==
    <<[type |-> REMOVED, on |-> store, name |-> prop]>> \o
    (IF d[store].parent = NoStore THEN <<>>
     ELSE <<[type |-> REMOVED, on |-> d[store].parent, name |-> prop]>>)

\* delete(name) as index.js has it: the item-removed event is emitted
\* whether or not the key was there.
DeleteEvents(d, store, prop) ==
    <<[type |-> REMOVED, on |-> store, name |-> prop]>>

\* The one function that delete and remove both name, called as method.
DeleteAs(method, this, name) ==
    /\ Idle
    /\ IF InvalidName(name) THEN Throws(method, this, name, NoValue, NameError)
       ELSE LET p == getPropData(data, this, name)
            IN /\ Len(p.data) <= MaxNodes
               /\ IF p.error # NoError
                  THEN /\ data' = p.data
                       /\ emitted' = p.events
                       /\ call' = Called(method, this, name, NoValue, p.error, NoStore)
                       /\ UNCHANGED subs
                  ELSE /\ data' = [p.data EXCEPT ![p.store].items = MapDelete(@, p.prop)]
                       /\ emitted' = p.events \o DeleteEvents(p.data, p.store, p.prop)
                       /\ call' = Called(method, this, name, NoValue, NoError, p.store)
                       /\ subs' = [i \in 1..Len(subs) |->
                                      Unheard(subs[i], DeleteEvents(p.data, p.store, p.prop))]
               /\ UNCHANGED <<gets, views>>

Delete(this, name) == DeleteAs("delete", this, name)

\* Store.prototype.remove = Store.prototype.delete
Remove(this, name) == DeleteAs("remove", this, name)

\* clear(nested): every item is deleted with an item-removed event each, in
\* the Map's order; with nested the children are cleared, in the order they
\* were added; store-cleared is emitted last.
\* A forEach that loses its place when the entry it stands on is deleted:
\* every second item is skipped.
RemovedEventsSkipping(store, items) ==
    [i \in 1..((Len(items) + 1) \div 2) |->
        [type |-> REMOVED, on |-> store, name |-> items[2 * i - 1].name]]

RemovedEvents(store, items) ==
    [i \in 1..Len(items) |-> [type |-> REMOVED, on |-> store, name |-> items[i].name]]

ClearedEvents(store) == <<[type |-> CLEARED, on |-> store]>>

RECURSIVE ClearStore(_, _, _)
RECURSIVE ClearChildren(_, _, _)
\* A nested clear that calls child.clear() without passing nested on: the
\* children are cleared, their own children are not.
RECURSIVE ClearChildrenShallow(_, _, _)
ClearChildrenShallow(d, children, i) ==
    IF i > Len(children) THEN [data |-> d, events |-> <<>>]
    ELSE LET one == ClearStore(d, children[i].child, FALSE)
             rest == ClearChildrenShallow(one.data, children, i + 1)
         IN [data |-> rest.data, events |-> one.events \o rest.events]

ClearChildren(d, children, i) ==
    IF i > Len(children) THEN [data |-> d, events |-> <<>>]
    ELSE LET one == ClearStore(d, children[i].child, TRUE)
             rest == ClearChildren(one.data, children, i + 1)
         IN [data |-> rest.data, events |-> one.events \o rest.events]

\* A clear that emits store-cleared before it turns to the children.
ClearStoreClearedFirst(d, store, nested) ==
    LET own == RemovedEvents(store, d[store].items)
        d1 == [d EXCEPT ![store].items = <<>>]
        sub == IF nested THEN ClearChildren(d1, d1[store].children, 1)
               ELSE [data |-> d1, events |-> <<>>]
    IN [data |-> sub.data, events |-> own \o ClearedEvents(store) \o sub.events]

\* A clear that does not test nested: the children are always cleared.
ClearStoreAlwaysNested(d, store, nested) ==
    LET own == RemovedEvents(store, d[store].items)
        d1 == [d EXCEPT ![store].items = <<>>]
        sub == ClearChildren(d1, d1[store].children, 1)
    IN [data |-> sub.data, events |-> own \o sub.events \o ClearedEvents(store)]

ClearStore(d, store, nested) ==
    LET own == RemovedEvents(store, d[store].items)
        d1 == [d EXCEPT ![store].items = <<>>]
        sub == IF nested THEN ClearChildren(d1, d1[store].children, 1)
               ELSE [data |-> d1, events |-> <<>>]
    IN [data |-> sub.data, events |-> own \o sub.events \o ClearedEvents(store)]

Clear(this, nested) ==
    LET r == ClearStore(data, this, nested)
    IN /\ Idle
       /\ data' = r.data
       /\ emitted' = r.events
       /\ call' = Called("clear", this, NotAString, nested, NoError, NoStore)
       /\ subs' = [i \in 1..Len(subs) |-> Unheard(subs[i], r.events)]
       /\ UNCHANGED <<gets, views>>

\* clear() with a handler of item-removed that may call set on the Store
\* being cleared.  Map.forEach visits the entries in insertion order, those
\* added while it runs included, so the loop is taken one entry at a time:
\* call.ret is the place of the next entry to visit, and emitted holds the
\* events of the entry visited last.
Clearing == call.op = "clearing"

ClearBegin(this) ==
    /\ Idle
    /\ call' = Called("clearing", this, NotAString, FALSE, NoError, 1)
    /\ emitted' = <<>>
    /\ UNCHANGED <<data, gets, subs, views>>

\* One turn of the forEach callback: map.delete(name), emit item-removed;
\* the handler, when it reacts, sets the removed name again, to value, which
\* makes a new entry at the end of the Map.  The entry deleted leaves its place to
\* the next one.
ClearVisit(reacts, value) ==
    /\ Clearing
    /\ call.ret <= Len(data[call.this].items)
    /\ LET name == data[call.this].items[call.ret].name
           removed == MapDelete(data[call.this].items, name)
       IN IF reacts
          THEN /\ data' = [data EXCEPT ![call.this].items = MapSet(removed, name, value)]
               /\ emitted' = <<[type |-> REMOVED, on |-> call.this, name |-> name]>>
                                \o SetEvents(call.this, name, value)
          ELSE /\ data' = [data EXCEPT ![call.this].items = removed]
               /\ emitted' = <<[type |-> REMOVED, on |-> call.this, name |-> name]>>
    /\ UNCHANGED <<call, gets, subs, views>>

\* The forEach has no entry left to visit: store-cleared, and clear returns.
ClearEnd ==
    /\ Clearing
    /\ call.ret > Len(data[call.this].items)
    /\ call' = [call EXCEPT !.op = "clear"]
    /\ emitted' = ClearedEvents(call.this)
    /\ UNCHANGED <<data, gets, subs, views>>

\* ---------------------------------------------- what a handler sees
\* emit is synchronous, and each statement that changes the data is followed
\* at once by the emit of its event: children[name] = new Store(store) by
\* store-added, items.set by item-set, items.delete by item-removed, in
\* delete and in clear alike; store-cleared follows no statement of its own.
AppliedBy(d, ev) ==
    IF ev.type = CREATED
    THEN Append([d EXCEPT ![ev.on].children =
                    Append(@, [name |-> ev.name, child |-> ev.child])],
                NewMeta(ev.on))
    ELSE IF ev.type = SET
    THEN [d EXCEPT ![ev.on].items = MapSet(@, ev.name, ev.value)]
    ELSE IF ev.type = REMOVED
    THEN [d EXCEPT ![ev.on].items = MapDelete(@, ev.name)]
    ELSE d

\* A call whose emits come before the statements they report: the handler
\* of the i-th event runs on the data of the first i - 1.
RECURSIVE SeenAtEmitFirst(_, _, _)
SeenAtEmitFirst(d, evs, i) ==
    IF i <= 1 THEN d ELSE AppliedBy(SeenAtEmitFirst(d, evs, i - 1), evs[i - 1])

\* The data the handlers of the i-th event of a call run on, the call having
\* started on d.
RECURSIVE SeenAt(_, _, _)
SeenAt(d, evs, i) ==
    IF i = 0 THEN d ELSE AppliedBy(SeenAt(d, evs, i - 1), evs[i])

\* get(name): the path is resolved and the chain of Observables built when
\* get is called; nothing is listened to before subscribe.
Get(this, name) ==
    /\ Idle
    /\ IF InvalidName(name) THEN Throws("get", this, name, NoValue, NameError)
       ELSE LET p == getPropData(data, this, name)
                error == IF p.error # NoError THEN p.error
                         ELSE ChainError(p.data, p.store, name)
            IN /\ Len(p.data) <= MaxNodes
               /\ data' = p.data
               /\ emitted' = p.events
               /\ IF error # NoError
                  THEN /\ call' = Called("get", this, name, NoValue, error, NoStore)
                       /\ UNCHANGED gets
                  ELSE /\ call' = Called("get", this, name, NoValue, NoError, Len(gets) + 1)
                       /\ gets' = Append(gets, Chain(p.data, p.store, name))
               /\ UNCHANGED <<subs, views>>

\* observable.subscribe(onNext): the values each level starts with are handed
\* over while subscribing.
Subscribe(g) ==
    /\ Idle
    /\ subs' = Append(subs, NewSubscription(data, g))
    /\ call' = Called("subscribe", g, NotAString, NoValue, NoError, Len(subs) + 1)
    /\ emitted' = <<>>
    /\ UNCHANGED <<data, gets, views>>

\* subscription.unsubscribe(): the merge is torn down, and with it the
\* listener of every level still listened to.
Unsubscribe(i) ==
    /\ Idle
    /\ subs[i].live > 0
    /\ subs' = [subs EXCEPT ![i].live = 0]
    /\ call' = Called("unsubscribe", i, NotAString, NoValue, NoError, NoStore)
    /\ emitted' = <<>>
    /\ UNCHANGED <<data, gets, views>>

\* ----------------------------------------------------- readonly views
\* readonly(store) is Object.create(store) with set, delete and clear
\* replaced by readonlyMethod and for, has, parent and root bound to the
\* Store.  A proxy keeps no state of its own: views holds the Stores the
\* caller has a proxy of.
\* A list of replaced methods that misses clear.
readonlyMethodsButClear == {"set", "delete"}

readonlyMethods == {"set", "delete", "clear"}

boundMethods == {"for", "has", "parent", "root"}

ViewCalled(op, this, name, arg, error, ret) ==
    [Called(op, this, name, arg, error, ret) EXCEPT !.view = TRUE]

\* parent(): ancestor && readonly(ancestor).
ParentResult(d, this) == d[this].parent

ParentOn(view, this) ==
    /\ Idle
    /\ call' = [Called("parent", this, NotAString, NoValue, NoError,
                       ParentResult(data, this))
                   EXCEPT !.view = view]
    /\ views' = IF ParentResult(data, this) = NoStore THEN views
                ELSE views \cup {ParentResult(data, this)}
    /\ emitted' = <<>>
    /\ UNCHANGED <<data, gets, subs>>

Parent(this) == ParentOn(FALSE, this)

\* A root() that stops at the first ancestor.
RootOfOneStep(d, current) ==
    IF d[current].parent = NoStore THEN current ELSE d[current].parent

\* root(): up the parent chain while there is an ancestor.
RECURSIVE RootOf(_, _)
RootOf(d, current) ==
    IF d[current].parent = NoStore THEN current ELSE RootOf(d, d[current].parent)

RootOn(view, this) ==
    /\ Idle
    /\ call' = [Called("root", this, NotAString, NoValue, NoError, RootOf(data, this))
                   EXCEPT !.view = view]
    /\ views' = views \cup {RootOf(data, this)}
    /\ emitted' = <<>>
    /\ UNCHANGED <<data, gets, subs>>

Root(this) == RootOn(FALSE, this)

\* The bound methods of a proxy run the Store's method on the Store.
ViewParent(v) == v \in views /\ ParentOn(TRUE, v)

ViewRoot(v) == v \in views /\ RootOn(TRUE, v)

ViewFor(v, name) ==
    /\ v \in views
    /\ Idle
    /\ LET r == IF InvalidName(name)
                THEN [data |-> data, store |-> NoStore, events |-> <<>>,
                      error |-> NameError]
                ELSE getChildStore(data, v, name, <<>>)
       IN /\ Len(r.data) <= MaxNodes
          /\ data' = r.data
          /\ emitted' = r.events
          /\ call' = ViewCalled("for", v, name, NoValue, r.error, r.store)
          /\ UNCHANGED <<gets, subs, views>>

ViewHas(v, name) ==
    /\ v \in views
    /\ Idle
    /\ call' = IF InvalidName(name)
               THEN ViewCalled("has", v, name, NoValue, NameError, NoStore)
               ELSE ViewCalled("has", v, name, NoValue, NoError, HasResult(data, v, name))
    /\ emitted' = <<>>
    /\ UNCHANGED <<data, gets, subs, views>>

\* A method that readonly neither replaces nor binds is the Store's own,
\* run with the proxy as this.  The proxy is no key of data: after the name
\* check (clear has none) data.get(this) is undefined and the method throws
\* on reading its children or items.
Inherited(method, name) ==
    IF method # "clear" /\ InvalidName(name) THEN NameError ELSE TypeError

\* set, delete, clear and remove called on a proxy.
ViewMethod(v, method, name, arg) ==
    /\ v \in views
    /\ Idle
    /\ call' = ViewCalled(method, v, name, arg,
                          IF method \in readonlyMethods THEN ReadonlyError
                          ELSE Inherited(method, name),
                          NoStore)
    /\ emitted' = <<>>
    /\ UNCHANGED <<data, gets, subs, views>>

Return ==
    /\ ~Idle
    /\ call' = None
    /\ emitted' = <<>>
    /\ subs' = [i \in 1..Len(subs) |-> [subs[i] EXCEPT !.got = <<>>]]
    /\ UNCHANGED <<data, gets, views>>

Init ==
    /\ data = <<NewMeta(NoStore)>>
    /\ call = None
    /\ emitted = <<>>
    /\ gets = <<>>
    /\ subs = <<>>
    /\ views = {}

\* ------------------------------------------------------------- inputs
PathNames == {<<"k">>, <<"c">>, <<"c", "k">>, <<"c", "c">>}

StoreNames == {<<"c">>, <<"c", "c">>}

BadNames == {NotAString, <<" ">>}

Next ==
    \/ \E this \in Stores, name \in StoreNames \cup BadNames : For(this, name)
    \/ \E this \in Stores, name \in PathNames \cup BadNames : Has(this, name)
    \/ \E this \in Stores, name \in PathNames \cup BadNames, value \in Val :
          Set(this, name, value)
    \/ \E this \in Stores, name \in PathNames \cup BadNames : Delete(this, name)
    \/ \E this \in Stores, nested \in BOOLEAN : Clear(this, nested)
    \/ Return

Spec == Init /\ [][Next]_vars

\* The reactive read between a Store and its child c: the key k read and
\* written on either, by bare key or from the parent by path, and a second
\* key of the child.
RxCalls == {<<1, <<"k">>>>, <<1, <<"c", "k">>>>, <<2, <<"k">>>>}

RxSets == RxCalls \cup {<<2, <<"c">>>>}

NextRx ==
    \/ \E c \in RxCalls : c[1] \in Stores /\ Len(gets) < MaxGets /\ Get(c[1], c[2])
    \/ \E g \in 1..Len(gets) : Len(subs) < MaxSubs /\ Subscribe(g)
    \/ \E c \in RxSets, value \in Val : c[1] \in Stores /\ Set(c[1], c[2], value)
    \/ \E c \in RxSets : c[1] \in Stores /\ Delete(c[1], c[2])
    \/ \E this \in Stores, nested \in BOOLEAN : Clear(this, nested)
    \/ Return

SpecRx == Init /\ [][NextRx]_vars

\* Two reads of the key k of the child c, one by path from the root and one
\* by bare key on the child, each subscribed once, and the sets of k.
PairGets == <<<<1, <<"c", "k">>>>, <<2, <<"k">>>>>>

NextPair ==
    \/ /\ Len(gets) < Len(PairGets)
       /\ PairGets[Len(gets) + 1][1] \in Stores
       /\ Get(PairGets[Len(gets) + 1][1], PairGets[Len(gets) + 1][2])
    \/ Len(subs) < Len(gets) /\ Subscribe(Len(subs) + 1)
    \/ \E c \in RxCalls, value \in Val : c[1] \in Stores /\ Set(c[1], c[2], value)
    \/ Return

SpecPair == Init /\ [][NextPair]_vars

\* The tree: the children c and d of any Store, a child whose name is a
\* blank segment (for('c/ ')), the keys k and c of any Store, and clear.
TreeStoreNames == {<<"c">>, <<"d">>, <<"c", "d">>, <<"c", " ">>, <<" ">>}

TreeKeys == {<<"k">>, <<"c">>, <<"c", "k">>}

TreeVal == CHOOSE v \in Val : \A w \in Val : v <= w

NextTree ==
    \/ \E this \in Stores, name \in TreeStoreNames : For(this, name)
    \/ \E this \in Stores, name \in TreeKeys : Set(this, name, TreeVal)
    \/ \E this \in Stores, name \in TreeKeys : Delete(this, name)
    \/ \E this \in Stores, nested \in BOOLEAN : Clear(this, nested)
    \/ Return

SpecTree == Init /\ [][NextTree]_vars

\* Paths and names: the child c of any Store, a key c that stands in the
\* way of the path c/k, and every kind of invalid name, for each method
\* that takes a name.  The Observable of the first get that returns one is
\* kept; what a get returns plays no part here.
InvalidNames == BadNames \cup {<<"">>}

PathKeys == {<<"c">>, <<"c", "k">>}

NextPath ==
    \/ \E this \in Stores, name \in {<<"c">>, <<"c", "c">>} \cup InvalidNames :
          For(this, name)
    \/ \E this \in Stores, name \in PathKeys \cup InvalidNames : Has(this, name)
    \/ \E this \in Stores, name \in PathKeys \cup InvalidNames :
          gets = <<>> /\ Get(this, name)
    \/ \E this \in Stores, name \in PathKeys \cup InvalidNames :
          Set(this, name, TreeVal)
    \/ \E this \in Stores, name \in PathKeys \cup InvalidNames : Delete(this, name)
    \/ Return

SpecPath == Init /\ [][NextPath]_vars

\* Readonly views: the proxies parent() and root() return, every method
\* called on them with valid names, paths and invalid names, beside for, set,
\* delete and remove on the Stores themselves.
ViewNames == {<<"k">>, <<"c">>, <<"c", "k">>} \cup InvalidNames

NextView ==
    \/ \E this \in Stores : For(this, <<"c">>)
    \/ \E this \in Stores, name \in {<<"k">>, <<"c", "k">>} : Set(this, name, TreeVal)
    \/ \E this \in Stores, name \in ViewNames : Delete(this, name)
    \/ \E this \in Stores, name \in ViewNames : Remove(this, name)
    \/ \E this \in Stores : Parent(this)
    \/ \E this \in Stores : Root(this)
    \/ \E v \in Stores : ViewParent(v)
    \/ \E v \in Stores : ViewRoot(v)
    \/ \E v \in Stores, name \in ViewNames : ViewFor(v, name)
    \/ \E v \in Stores, name \in ViewNames : ViewHas(v, name)
    \/ \E v \in Stores, name \in ViewNames, value \in Val :
          ViewMethod(v, "set", name, value)
    \/ \E v \in Stores, name \in ViewNames : ViewMethod(v, "delete", name, NoValue)
    \/ \E v \in Stores, name \in ViewNames : ViewMethod(v, "remove", name, NoValue)
    \/ \E v \in Stores, nested \in BOOLEAN : ViewMethod(v, "clear", NotAString, nested)
    \/ Return

SpecView == Init /\ [][NextView]_vars

\* A read that is subscribed to and unsubscribed from, and the calls that
\* would have reached it.
NextSub ==
    \/ \E c \in RxCalls : c[1] \in Stores /\ Len(gets) < MaxGets /\ Get(c[1], c[2])
    \/ \E g \in 1..Len(gets) : Len(subs) < MaxSubs /\ Subscribe(g)
    \/ \E i \in 1..Len(subs) : Unsubscribe(i)
    \/ \E c \in RxSets : c[1] \in Stores /\ Set(c[1], c[2], TreeVal)
    \/ \E c \in RxSets : c[1] \in Stores /\ Delete(c[1], c[2])
    \/ Return

SpecSub == Init /\ [][NextSub]_vars

\* Two reads of the key k of the child c, made and subscribed to at any two
\* moments, among the sets and deletes of k on the child and on the root.
AgainGets == <<<<2, <<"k">>>>, <<2, <<"k">>>>>>

NextAgain ==
    \/ For(1, <<"c">>)
    \/ /\ Len(gets) < Len(AgainGets)
       /\ AgainGets[Len(gets) + 1][1] \in Stores
       /\ Get(AgainGets[Len(gets) + 1][1], AgainGets[Len(gets) + 1][2])
    \/ Len(subs) < Len(gets) /\ Subscribe(Len(subs) + 1)
    \/ \E this \in Stores : Set(this, <<"k">>, TreeVal)
    \/ \E this \in Stores : Delete(this, <<"k">>)
    \/ Return

SpecAgain == Init /\ [][NextAgain]_vars

\* A root, its child c and c's child d, and the reads of the key k on any of
\* them, among the sets and deletes of k on each.
NextDeep ==
    \/ For(1, <<"c", "d">>)
    \/ \E this \in Stores : Len(gets) < MaxGets /\ Get(this, <<"k">>)
    \/ \E g \in 1..Len(gets) : Len(subs) < MaxSubs /\ Subscribe(g)
    \/ \E this \in Stores, value \in Val : Set(this, <<"k">>, value)
    \/ \E this \in Stores : Delete(this, <<"k">>)
    \/ Return

SpecDeep == Init /\ [][NextDeep]_vars

\* Names that pass the validation of the whole name and end in a segment
\* that is empty or blank ('c/', 'c/ '), beside a bare key and a path, and
\* the keys has is asked for.
EdgeNames == {<<"k">>, <<"c", "k">>, <<"c", "">>, <<"c", " ">>}

EdgeKeys == {<<"k">>, <<"">>, <<" ">>}

NextEdge ==
    \/ \E this \in Stores, name \in EdgeNames : Set(this, name, TreeVal)
    \/ \E this \in Stores, name \in EdgeNames : Delete(this, name)
    \/ \E this \in Stores, name \in EdgeKeys : Has(this, name)
    \/ \E this \in Stores, nested \in BOOLEAN : Clear(this, nested)
    \/ Return

SpecEdge == Init /\ [][NextEdge]_vars

\* Paths with a segment that Object.prototype has a property for, beside
\* paths without.
ProtoPaths == {<<"c">>, <<"constructor">>, <<"c", "constructor">>}

ProtoKeys == {<<"k">>, <<"constructor">>, <<"c", "k">>, <<"c", "constructor", "k">>}

NextProto ==
    \/ \E this \in Stores, name \in ProtoPaths : For(this, name)
    \/ \E this \in Stores, name \in ProtoKeys : gets = <<>> /\ Get(this, name)
    \/ \E this \in Stores, name \in ProtoKeys : Set(this, name, TreeVal)
    \/ \E this \in Stores, name \in ProtoKeys : Delete(this, name)
    \/ Return

SpecProto == Init /\ [][NextProto]_vars

\* clear on Stores whose item-removed handlers may set, among sets and
\* deletes of two keys.  A call that has begun runs on: the steps of clear
\* are taken as long as there is one to take.
LoopKeys == {<<"k">>, <<"j">>, <<"c", "k">>}

ClearStep == (\E reacts \in BOOLEAN : ClearVisit(reacts, TreeVal)) \/ ClearEnd

NextLoop ==
    \/ \E this \in Stores, name \in LoopKeys, value \in Val : Set(this, name, value)
    \/ \E this \in Stores, name \in LoopKeys : Delete(this, name)
    \/ \E this \in Stores : ClearBegin(this)
    \/ \E reacts \in BOOLEAN : ClearVisit(reacts, TreeVal)
    \/ ClearEnd
    \/ ~Clearing /\ Return

SpecLoop == Init /\ [][NextLoop]_vars /\ WF_vars(ClearStep)

\* Construction: Stores made with new, given no ancestor, a Store or
\* something that is no Store, beside children made by for, and parent() and
\* root() on all of them.
NextNew ==
    \/ \E ancestor \in Stores \cup {NoStore, NotAStore} : New(ancestor)
    \/ \E this \in Stores : For(this, <<"c">>)
    \/ \E this \in Stores : Set(this, <<"k">>, TreeVal)
    \/ \E this \in Stores : Parent(this)
    \/ \E this \in Stores : Root(this)
    \/ \E v \in Stores : ViewParent(v)
    \/ \E v \in Stores : ViewRoot(v)
    \/ Return

SpecNew == Init /\ [][NextNew]_vars

\* ------------------------------------------------------------- claims
\* The call in progress returned normally from op.
Returned(op) == call.op = op /\ call.error = NoError

\* The Store a delete resolved to held the key before the call.
DeleteHadKey ==
    /\ call.ret <= Len(call.before.data)
    /\ MapHas(call.before.data[call.ret].items, Last(call.name))

EventsOn(store) == SelectSeq(emitted, LAMBDA e : e.on = store)

\* C8: delete(name) of a key that does not exist on the resolved node is a
\* silent no-op: the items of every node are unchanged and no item-removed
\* event is emitted on any node.
C8_DeleteAbsentIsSilent ==
    (Returned("delete") /\ ~DeleteHadKey) =>
        /\ \A s \in 1..Len(call.before.data) :
              data[s].items = call.before.data[s].items
        /\ \A i \in 1..Len(emitted) : emitted[i].type # REMOVED

\* C9: delete(name) of a key that exists on the resolved node (the receiver,
\* or a nested Store named by the path) removes it, so that has(key) on that
\* node is false, and emits exactly one item-removed event {name: key}, on
\* the resolved node, and no other event on any node.
C9_DeleteExistingRemovesAndEmitsOnce ==
    (Returned("delete") /\ DeleteHadKey) =>
        /\ ~HasResult(data, call.ret, <<Last(call.name)>>)
        /\ emitted = <<[type |-> REMOVED, on |-> call.ret, name |-> Last(call.name)]>>
        /\ \A s \in 1..Len(call.before.data) :
              s # call.ret => data[s] = call.before.data[s]

\* A key of a nested Store is deleted by path from its parent.
C9_Witness ==
    /\ Returned("delete")
    /\ DeleteHadKey
    /\ Len(call.name) = 2
    /\ call.ret # call.this

\* C10: clear() on a node holding n local items removes all of them (has is
\* false for each afterwards) and emits on that node exactly n item-removed
\* events, one per prior key, followed by exactly one store-cleared event
\* without payload.
C10_ClearRemovesAllThenCleared ==
    Returned("clear") =>
        LET prior == call.before.data[call.this].items
            n == Len(prior)
            mine == EventsOn(call.this)
        IN /\ data[call.this].items = <<>>
           /\ \A i \in 1..n : ~HasResult(data, call.this, <<prior[i].name>>)
           /\ Len(mine) = n + 1
           /\ mine[n + 1] = [type |-> CLEARED, on |-> call.this]
           /\ \A i \in 1..n : mine[i].type = REMOVED
           /\ \A i \in 1..n :
                 Cardinality({j \in 1..n : mine[j].name = prior[i].name}) = 1

\* A node with two items is cleared.
C10_Witness ==
    /\ Returned("clear")
    /\ Len(call.before.data[call.this].items) = 2
    /\ ~call.arg

\* ------------------------------------------------------- claims: clear
\* a is a Store of the parent chain of s, s itself excluded.
RECURSIVE IsAncestor(_, _, _)
IsAncestor(d, a, s) ==
    /\ d[s].parent # NoStore
    /\ (d[s].parent = a \/ IsAncestor(d, a, d[s].parent))

\* The Stores registered below s, at any depth.
RECURSIVE Descendants(_, _)
Descendants(d, s) ==
    LET kids == {d[s].children[i].child : i \in 1..Len(d[s].children)}
    IN kids \cup UNION {Descendants(d, k) : k \in kids}

ClearedAt(store) ==
    {i \in 1..Len(emitted) : emitted[i] = [type |-> CLEARED, on |-> store]}

RemovedOf(store) ==
    SelectSeq(emitted, LAMBDA e : e.type = REMOVED /\ e.on = store)

\* C11 as stated: in clear(true) every event emitted on a descendant comes
\* after the store-cleared event of its ancestor.
C11_ClearedBeforeChildren ==
    (Returned("clear") /\ call.arg) =>
        \A i \in 1..Len(emitted) : \A j \in 1..Len(emitted) :
            (/\ emitted[i].type = CLEARED
             /\ IsAncestor(data, emitted[i].on, emitted[j].on)) => i < j

\* C11, amended: in clear(true) a node emits its own store-cleared event
\* after all of its children have finished clearing: every item-removed and
\* store-cleared event emitted on a descendant comes before the
\* store-cleared event of its ancestor in that call.
C11_ClearedAfterChildren ==
    (Returned("clear") /\ call.arg) =>
        \A i \in 1..Len(emitted) : \A j \in 1..Len(emitted) :
            (/\ emitted[i].type = CLEARED
             /\ IsAncestor(data, emitted[i].on, emitted[j].on)) => j < i

\* clear(true) on a node whose child held an item: the child's item-removed
\* and store-cleared events are there, and the node's store-cleared is last.
C11_Witness ==
    /\ Returned("clear")
    /\ call.arg
    /\ \E s \in Descendants(data, call.this) :
          /\ call.before.data[s].items # <<>>
          /\ ClearedAt(s) # {}
    /\ emitted[Len(emitted)] = [type |-> CLEARED, on |-> call.this]

\* C12: clear(true) on a node clears every descendant registered in the
\* tree, at any depth: afterwards no descendant holds an item, each
\* descendant emitted one item-removed per item it held, and the node and
\* each descendant emitted exactly one store-cleared event.
C12_NestedClearReachesEveryDescendant ==
    (Returned("clear") /\ call.arg) =>
        \A s \in {call.this} \cup Descendants(data, call.this) :
            /\ data[s].items = <<>>
            /\ RemovedOf(s) = RemovedEvents(s, call.before.data[s].items)
            /\ Cardinality(ClearedAt(s)) = 1

\* clear(true) on a node with a grandchild that held an item.
C12_Witness ==
    /\ Returned("clear")
    /\ call.arg
    /\ \E s \in Descendants(data, call.this) :
          /\ data[s].parent # call.this
          /\ call.before.data[s].items # <<>>

\* C13: clear() and clear(false) leave every other node as it was (items and
\* children) and emit no event on any node other than the one cleared; in
\* particular clearing a child emits nothing on its parent.
C13_PlainClearIsLocal ==
    (Returned("clear") /\ ~call.arg) =>
        /\ \A s \in Stores : s # call.this => data[s] = call.before.data[s]
        /\ data[call.this].children = call.before.data[call.this].children
        /\ \A i \in 1..Len(emitted) : emitted[i].on = call.this

\* clear() on a node with items whose parent and child hold items too.
C13_Witness ==
    /\ Returned("clear")
    /\ ~call.arg
    /\ call.before.data[call.this].items # <<>>
    /\ data[call.this].parent # NoStore
    /\ data[data[call.this].parent].items # <<>>
    /\ \E s \in Descendants(data, call.this) : data[s].items # <<>>

\* -------------------------------------------------- claims: the tree
\* The node registered under the path names below base, NoStore when a
\* segment has no node registered.
RECURSIVE NodeAt(_, _, _)
NodeAt(d, base, names) ==
    IF names = <<>> THEN base
    ELSE LET hit == {i \in 1..Len(d[base].children) :
                        d[base].children[i].name = Head(names)}
         IN IF hit = {} THEN NoStore
            ELSE NodeAt(d, d[base].children[CHOOSE i \in hit : \A j \in hit : i <= j].child,
                        Tail(names))

Segments == {"c", "d", " "}

Paths == {<<a>> : a \in Segments} \cup {<<a, b>> : a \in Segments, b \in Segments}

\* C14: child resolution is stable: a node registered under a path stays
\* registered under it, the same node, through every call (for, set,
\* delete, clear, clear(true)), and for(path) of a path that is registered
\* returns that node, creates nothing and emits nothing.
C14_ChildResolutionStable ==
    ~Idle =>
        /\ \A base \in 1..Len(call.before.data) : \A names \in Paths :
              NodeAt(call.before.data, base, names) # NoStore =>
                  NodeAt(data, base, names) = NodeAt(call.before.data, base, names)
        /\ (/\ call.op = "for"
            /\ ~InvalidName(call.name)
            /\ NodeAt(call.before.data, call.this, call.name) # NoStore) =>
              /\ call.error = NoError
              /\ call.ret = NodeAt(call.before.data, call.this, call.name)
              /\ Len(data) = Len(call.before.data)
              /\ emitted = <<>>

\* for of a two-segment path that is registered already, whose node holds
\* an item.
C14_Witness ==
    /\ Returned("for")
    /\ Len(call.name) = 2
    /\ NodeAt(call.before.data, call.this, call.name) # NoStore
    /\ data[call.ret].items # <<>>

\* What for(name) on this returns in the state d, and the state it leaves.
ForResult(d, this, name) ==
    IF InvalidName(name)
    THEN [data |-> d, store |-> NoStore, events |-> <<>>, error |-> NameError]
    ELSE getChildStore(d, this, name, <<>>)

\* C15: path composition: after store.for('a/b') has returned a node,
\* store.for('a').for('b') returns that same node, whose parent is
\* store.for('a'); and after node.for('b') has returned a node, on the node
\* registered as 'a' of store, store.for('a/b') returns that same node.
C15_PathComposition ==
    /\ (Returned("for") /\ Len(call.name) = 2) =>
          LET fa == ForResult(data, call.this, <<call.name[1]>>)
          IN /\ fa.error = NoError
             /\ LET fb == ForResult(fa.data, fa.store, <<call.name[2]>>)
                IN /\ fb.error = NoError
                   /\ fb.store = call.ret
                   /\ data[call.ret].parent = fa.store
    /\ (Returned("for") /\ Len(call.name) = 1 /\ data[call.this].parent # NoStore) =>
          \A a \in Segments :
              NodeAt(data, data[call.this].parent, <<a>>) = call.this =>
                  LET fab == ForResult(data, data[call.this].parent, <<a, call.name[1]>>)
                  IN /\ fab.error = NoError
                     /\ fab.store = call.ret
                     /\ data[call.ret].parent = call.this

\* ------------------------------------------------ claims: path, names
\* The segments a call traverses as child Stores: all of them for for, all
\* but the last for get, set and delete.
Traversed == IF call.op = "for" THEN call.name ELSE Front(call.name)

\* Walking names from base in d meets a segment that names an item of the
\* node reached while no child of that name is registered there.  (A node
\* the walk would create has no items.)
RECURSIVE Blocked(_, _, _)
Blocked(d, base, names) ==
    /\ names # <<>>
    /\ IF NodeAt(d, base, <<Head(names)>>) # NoStore
       THEN Blocked(d, NodeAt(d, base, <<Head(names)>>), Tail(names))
       ELSE \E i \in 1..Len(d[base].items) : d[base].items[i].name = Head(names)

\* C16: when a traversed segment names an item of the node reached and that
\* node has no child of that name, the call (for, get, set, delete) fails
\* with 'Path does not resolve to a Store.'
C16_ItemInThePathFails ==
    (/\ ~Idle
     /\ call.op \in {"for", "get", "set", "delete"}
     /\ call.name \notin InvalidNames
     /\ Blocked(call.before.data, call.this, Traversed)) =>
        call.error = PathError

\* get('c/k') on a node that holds the key c and has no child c.
C16_Witness ==
    /\ ~Idle
    /\ call.op = "get"
    /\ Len(call.name) = 2
    /\ Blocked(call.before.data, call.this, Traversed)
    /\ call.error = PathError

\* C17: for, has, get, set and delete fail with the name error for every
\* name that is not a string, is empty or is whitespace only, and before
\* any traversal: the call leaves no item, no child and no event.
C17_InvalidNameFailsFirst ==
    (/\ ~Idle
     /\ call.op \in {"for", "has", "get", "set", "delete"}
     /\ call.name \in InvalidNames) =>
        /\ call.error = NameError
        /\ data = call.before.data
        /\ subs = call.before.subs
        /\ emitted = <<>>

\* set with a whitespace-only name on a node that has a child and an item.
C17_Witness ==
    /\ ~Idle
    /\ call.op = "set"
    /\ call.name = <<" ">>
    /\ call.error = NameError
    /\ data[call.this].children # <<>>
    /\ data[call.this].items # <<>>

\* ---------------------------------------------- claims: items, events
\* The items of s before the call in progress; none when the call made s.
ItemsBefore(s) ==
    IF s <= Len(call.before.data) THEN call.before.data[s].items ELSE <<>>

Holds(items, key) == \E i \in 1..Len(items) : items[i].name = key

\* The node that has s registered among its children, NoStore when none has.
Registrar(d, s) ==
    LET hit == {n \in 1..Len(d) :
                   \E i \in 1..Len(d[n].children) : d[n].children[i].child = s}
    IN IF hit = {} THEN NoStore ELSE CHOOSE n \in hit : TRUE

\* The node s is found under by going from registrar to registrar.
RECURSIVE Topmost(_, _)
Topmost(d, s) ==
    IF Registrar(d, s) = NoStore THEN s ELSE Topmost(d, Registrar(d, s))

\* The store-added events of the call in progress.
Added == SelectSeq(emitted, LAMBDA e : e.type = CREATED)

\* C23: a traversal by for, get, set or delete emits exactly one
\* store-added event {name, child} for each child node it creates, on the
\* node that gains the child, with child the node created; the events of a
\* path that creates several nodes come in root-to-leaf order; a traversal
\* through children that exist emits none.
C23_StoreAddedPerCreatedChild ==
    (~Idle /\ call.op \in {"for", "get", "set", "delete"}) =>
        /\ Len(Added) = Len(data) - Len(call.before.data)
        /\ \A i \in 1..Len(Added) :
              LET child == Len(call.before.data) + i
              IN /\ Added[i].child = child
                 /\ Added[i].on = Registrar(data, child)
                 /\ NodeAt(data, Added[i].on, <<Added[i].name>>) = child
                 /\ i > 1 => Added[i].on = Added[i - 1].child

\* for('c/c') creates the child and the grandchild.
C23_Witness ==
    /\ Returned("for")
    /\ Len(Added) = 2
    /\ Added[2].on = Added[1].child

\* C22: set(name, value) stores value under the last segment in the node
\* the path resolves to, in place of any value held before, and emits
\* exactly one item-set event {name: key, value}, on that node: no item-set
\* on the invoking Store or on any other node, and no other item changed.
C22_SetStoresAndEmitsOnce ==
    Returned("set") =>
        LET node == NodeAt(data, call.this, Front(call.name))
            key == Last(call.name)
        IN /\ node # NoStore
           /\ Holds(data[node].items, key)
           /\ \A i \in 1..Len(data[node].items) :
                 data[node].items[i].name = key =>
                     data[node].items[i].value = call.arg
           /\ SelectSeq(emitted, LAMBDA e : e.type = SET) =
                 <<[type |-> SET, on |-> node, name |-> key, value |-> call.arg]>>
           /\ \A s \in Stores : s # node => data[s].items = ItemsBefore(s)
           /\ MapDelete(data[node].items, key) = MapDelete(ItemsBefore(node), key)

\* set('c/k', v) from the parent on a child that holds another value for k.
C22_Witness ==
    /\ Returned("set")
    /\ Len(call.name) = 2
    /\ LET node == NodeAt(data, call.this, Front(call.name))
       IN /\ Holds(ItemsBefore(node), Last(call.name))
          /\ MapGet(ItemsBefore(node), Last(call.name)) # call.arg
          /\ data[call.this].items # <<>>

Keys == {"k", "c"}

\* What has(key) on s is to answer after the call in progress.
C24_Expected(s, key) ==
    IF Returned("set") /\ NodeAt(data, call.this, Front(call.name)) = s
                       /\ Last(call.name) = key
    THEN TRUE
    ELSE IF Returned("delete") /\ call.ret = s /\ Last(call.name) = key
    THEN FALSE
    ELSE IF Returned("clear")
            /\ (s = call.this \/ (call.arg /\ s \in Descendants(data, call.this)))
    THEN FALSE
    ELSE Holds(ItemsBefore(s), key)

C25_HasIsPure ==
    (~Idle /\ call.op = "has" /\ call.name \notin InvalidNames) =>
        /\ call.error = NoError
        /\ data = call.before.data
        /\ emitted = <<>>

\* has('c/k') on a node with items and no child c.
C25_Witness ==
    /\ Returned("has")
    /\ Len(call.name) = 2
    /\ NodeAt(data, call.this, <<call.name[1]>>) = NoStore
    /\ data[call.this].items # <<>>

\* C28: in every reachable state no name is both the key of an item of a
\* node and the name of a child Store of that node.
C28_ItemAndChildNamesDisjoint ==
    \A s \in Stores :
        \A i \in 1..Len(data[s].items) : \A j \in 1..Len(data[s].children) :
            data[s].items[i].name # data[s].children[j].name

\* --------------------------------------------------- claims: handlers
Mutator == ~Idle /\ call.op \in {"set", "delete", "clear"}

Seen(i) == SeenAt(call.before.data, emitted, i)

\* The change an event reports is there in d.
Reported(d, ev) ==
    IF ev.type = CREATED
    THEN /\ ev.child \in 1..Len(d)
         /\ ChildAt(d[ev.on].children, ev.name) = ev.child
         /\ d[ev.child].parent = ev.on
    ELSE IF ev.type = SET
    THEN MapHas(d[ev.on].items, ev.name) /\ MapGet(d[ev.on].items, ev.name) = ev.value
    ELSE IF ev.type = REMOVED
    THEN ~MapHas(d[ev.on].items, ev.name)
    ELSE d[ev.on].items = <<>>

\* C27, as claimed: whenever an event handler is invoked during a set,
\* delete or clear call, the items and children of the affected nodes are
\* already in the state they have when the call returns.
C27_HandlersSeeTheFinalState ==
    Mutator => \A i \in 1..Len(emitted) : Seen(i) = data

\* C27, amended: whenever an event handler is invoked during a set, delete
\* or clear call, the change its event reports and the changes of every
\* earlier event of the call are applied in full; the handlers of the last
\* event of the call see the state the call returns with, so a call that
\* emits one event is never seen half done.
C27_HandlersSeeTheirChangeApplied ==
    Mutator =>
        /\ \A i \in 1..Len(emitted) :
              /\ Reported(Seen(i), emitted[i])
              /\ \A j \in 1..i : emitted[j].type \in {CREATED, CLEARED}
                                     => Reported(Seen(i), emitted[j])
        /\ emitted # <<>> => Seen(Len(emitted)) = data
        /\ emitted = <<>> => data = call.before.data

\* clear(true) of a Store with two items and a child that holds an item: the
\* handlers of the first item-removed run while the other items are there.
C27_Witness ==
    /\ Returned("clear")
    /\ call.arg = TRUE
    /\ Len(call.before.data[call.this].items) = 2
    /\ \E c \in 1..Len(data) :
          /\ call.before.data[c].parent = call.this
          /\ call.before.data[c].items # <<>>
    /\ Seen(1) # data

\* C33: get(name) with intermediate segments creates the child Stores that
\* are missing, with a store-added event each, when get is called, no
\* subscription being made; get, set and delete with a bare key resolve to
\* the invoking node itself, create no child and emit no store-added event.
C33_GetCreatesBareKeyStays ==
    /\ (/\ ~Idle
        /\ call.op = "get"
        /\ call.name \notin InvalidNames
        /\ call.error # PathError) =>
          /\ NodeAt(data, call.this, Front(call.name)) # NoStore
          /\ NodeAt(call.before.data, call.this, Front(call.name)) = NoStore =>
                /\ Len(data) > Len(call.before.data)
                /\ Len(Added) = Len(data) - Len(call.before.data)
          /\ subs = call.before.subs
    /\ (/\ ~Idle
        /\ call.op \in {"get", "set", "delete"}
        /\ call.name \notin InvalidNames
        /\ Len(call.name) = 1) =>
          /\ call.error = NoError
          /\ Len(data) = Len(call.before.data)
          /\ \A s \in Stores : data[s].children = call.before.data[s].children
          /\ Added = <<>>
          /\ \A s \in Stores : s # call.this => data[s].items = call.before.data[s].items
          /\ call.op = "get" => gets[call.ret][1].store = call.this
          /\ call.op = "set" => Holds(data[call.this].items, call.name[1])
          /\ call.op = "delete" => ~Holds(data[call.this].items, call.name[1])

\* get('c/k') on a node without a child c.
C33_Witness ==
    /\ Returned("get")
    /\ Len(call.name) = 2
    /\ NodeAt(call.before.data, call.this, Front(call.name)) = NoStore
    /\ Len(Added) = 1
    /\ call.before.data[call.this].items # <<>>

\* C37: every key stored in a node's items is a name that has accepts, a
\* string that is not empty after trimming, so that every stored item can
\* be asked for with has on its node, after any set calls with valid names,
\* names with a trailing or empty segment such as 'child/' included.
C37_StoredKeysAreValidNames ==
    \A s \in Stores : \A i \in 1..Len(data[s].items) :
        ~InvalidName(<<data[s].items[i].name>>)

\* has(key) on s, called on the data d, answers true; answers false.
HasAt(d, s, key) == ~InvalidName(<<key>>) /\ HasResult(d, s, <<key>>)

HasNotAt(d, s, key) == ~InvalidName(<<key>>) /\ ~HasResult(d, s, <<key>>)

\* for(name) on s, called on the data d, returns child and creates nothing.
ForAt(d, s, name, child) ==
    /\ ~InvalidName(<<name>>)
    /\ getChildStore(d, s, <<name>>, <<>>) =
          [data |-> d, store |-> child, events |-> <<>>, error |-> NoError]

\* C34: state is updated before its event is emitted: when an item-set
\* handler runs, has(key) on the emitting node is true and the value stored
\* is the event's; when an item-removed handler runs, has(key) is false;
\* when a store-added handler runs, for(name) on the emitting node returns
\* the event's child and creates nothing.
C34_StateBeforeEvent ==
    ~Idle =>
        \A i \in 1..Len(emitted) :
            LET ev == emitted[i]
                d == Seen(i)
            IN /\ ev.type = SET =>
                     /\ HasAt(d, ev.on, ev.name)
                     /\ MapGet(d[ev.on].items, ev.name) = ev.value
               /\ ev.type = REMOVED => HasNotAt(d, ev.on, ev.name)
               /\ ev.type = CREATED => ForAt(d, ev.on, ev.name, ev.child)

\* C35: a for, get, set or delete call that fails with 'Path does not
\* resolve to a Store.' leaves the whole tree unchanged (no handler changing
\* the store during the call): it creates no child node for any earlier
\* segment of the path, changes no item and emits no event.
C35_FailedPathChangesNothing ==
    (/\ ~Idle
     /\ call.op \in {"for", "get", "set", "delete"}
     /\ call.error = PathError) =>
        /\ data = call.before.data
        /\ emitted = <<>>

\* C38: clear() always ends, also when an item-removed handler reacts to a
\* removal by calling set on the Store being cleared; it ends with
\* store-cleared, and the node then holds no item.
C38_ClearEnds ==
    Clearing ~> (/\ call.op = "clear"
                 /\ emitted = ClearedEvents(call.this)
                 /\ data[call.this].items = <<>>)

\* ------------------------------------------------------ claims: views
\* The call in progress was made on a readonly proxy.
OnView == ~Idle /\ call.view

\* C21: parent() of the root returns nothing; parent() of a node at any
\* depth returns a Readonly View over the node it was created under, and
\* root() a Readonly View over the topmost node above it (the node itself
\* when it has no parent); the same holds of parent() and root() called on
\* a Readonly View.
C21_ParentAndRootViews ==
    /\ (~Idle /\ call.op = "parent") =>
          /\ call.error = NoError
          /\ call.ret = Registrar(data, call.this)
          /\ call.ret # NoStore => call.ret \in views
          /\ data = call.before.data
    /\ (~Idle /\ call.op = "root") =>
          /\ call.error = NoError
          /\ call.ret = Topmost(data, call.this)
          /\ call.ret \in views
          /\ data = call.before.data

\* root() called on a node that is neither the topmost node nor a child of
\* it, while the caller holds a view of its parent.
C21_Witness ==
    /\ ~Idle
    /\ call.op = "root"
    /\ Registrar(data, call.this) \in views
    /\ Registrar(data, call.this) # NoStore
    /\ Registrar(data, call.this) # call.ret

\* C26: constructing a Store with an argument that is defined and is no
\* Store fails with 'The argument provided must be a Store instance.';
\* constructing with a Store succeeds and parent() of the new node is (a
\* view over) exactly that Store; constructing with no argument yields a
\* root: parent() of it is nothing.
C26_ConstructorAncestor ==
    (~Idle /\ call.op = "new") =>
        IF call.arg = NotAStore
        THEN call.error = AncestorError /\ data = call.before.data
        ELSE /\ call.error = NoError
             /\ call.ret = Len(call.before.data) + 1
             /\ Len(data) = call.ret
             /\ SubSeq(data, 1, Len(call.before.data)) = call.before.data
             /\ ParentResult(data, call.ret) = call.arg
             /\ RootOf(data, call.ret) =
                   (IF call.arg = NoStore THEN call.ret ELSE RootOf(data, call.arg))

\* new Store(child) for a Store child that has a parent itself.
C26_Witness ==
    /\ Returned("new")
    /\ call.arg \in Stores
    /\ data[call.arg].parent # NoStore
    /\ data[call.arg].items # <<>>

\* The places a node is registered at: the node and the position in its
\* children.
Registrations(s) ==
    {<<n, i>> \in Stores \X (1..MaxNodes) :
        i <= Len(data[n].children) /\ data[n].children[i].child = s}

C18_ViewRejectsMutators ==
    (OnView /\ call.op \in {"set", "delete", "clear"}) =>
        /\ call.error = ReadonlyError
        /\ data = call.before.data
        /\ emitted = <<>>

\* set with an invalid name on a view of a node that holds items and has a
\* child: the readonly error, not the name error.
C18_Witness ==
    /\ OnView
    /\ call.op = "set"
    /\ call.name \in InvalidNames
    /\ call.error = ReadonlyError
    /\ data[call.this].items # <<>>
    /\ data[call.this].children # <<>>

\* C19: no call of for, has, parent or root on a Readonly View changes the
\* items or the children of the underlying node or emits an event on it.
C19_ViewNeverMutates ==
    (OnView /\ call.op \in boundMethods) =>
        /\ data[call.this].items = call.before.data[call.this].items
        /\ data[call.this].children = call.before.data[call.this].children
        /\ EventsOn(call.this) = <<>>

\* What delete(name) on the Store this does from the state d.
DeleteOutcome(d, this, name) ==
    IF InvalidName(name)
    THEN [data |-> d, events |-> <<>>, error |-> NameError]
    ELSE LET p == getPropData(d, this, name)
         IN IF p.error # NoError
            THEN [data |-> p.data, events |-> p.events, error |-> p.error]
            ELSE [data |-> [p.data EXCEPT ![p.store].items = MapDelete(@, p.prop)],
                  events |-> p.events \o DeleteEvents(p.data, p.store, p.prop),
                  error |-> NoError]

\* C20: remove behaves as delete on every receiver: on a Store it makes the
\* state change, emits the events and throws the errors of delete(name); on
\* a Readonly View it fails with 'Ancestor Stores are read-only.' as
\* delete(name) does.
C20_RemoveIsDelete ==
    (~Idle /\ call.op = "remove") =>
        IF call.view
        THEN /\ call.error = ReadonlyError
             /\ data = call.before.data
             /\ emitted = <<>>
        ELSE LET out == DeleteOutcome(call.before.data, call.this, call.name)
             IN /\ data = out.data
                /\ emitted = out.events
                /\ call.error = out.error

\* ----------------------------------------------- claims: reactive read
\* The item-set event of a set call that returned.
SetEvent == emitted[Len(emitted)]

ChainOf(i) == gets[subs[i].of]

Node(i) == ChainOf(i)[1].store

BareKey(i) == Len(ChainOf(i)[1].name) = 1

\* Subscription i was made before the call in progress.
Existing(i) == ~Idle /\ i <= Len(call.before.subs)

\* The call in progress is set, returned, of key on store.
SetOf(store, key) ==
    Returned("set") /\ SetEvent.on = store /\ SetEvent.name = key

\* C1: for a subscriber that subscribed to child.get(key) (get evaluated as
\* it subscribes) while neither child nor root held the key: each set of the
\* key on the child hands the subscriber exactly its value; each set of the
\* key on the root hands it exactly its value when the child has not had the
\* key set since subscribing, and nothing after that; no other call hands it
\* anything.  The values delivered are therefore the root's sets up to the
\* first child set, then the child's sets, in order.
C1_Case(i) ==
    /\ BareKey(i)
    /\ Len(ChainOf(i)) = 2
    /\ subs[i].fresh
    /\ subs[i].held = {}

C1_Expected(i) ==
    IF /\ Returned("set")
       /\ Existing(i)
       /\ SetEvent.name = Key(ChainOf(i))
       /\ \/ SetEvent.on = Node(i)
          \/ SetEvent.on = data[Node(i)].parent /\ 1 \notin call.before.subs[i].sets
    THEN <<SetEvent.value>>
    ELSE <<>>

C1_RootSetsUntilFirstChildSet ==
    \A i \in 1..Len(subs) : C1_Case(i) => subs[i].got = C1_Expected(i)

\* A set on the root after the child's first set is handed to nobody.
C1_Witness ==
    \E i \in 1..Len(subs) :
        /\ C1_Case(i)
        /\ Existing(i)
        /\ SetOf(data[Node(i)].parent, Key(ChainOf(i)))
        /\ call.before.subs[i].sets = {1, 2}
        /\ subs[i].got = <<>>

\* C2: when a node and its ancestor both hold the key as a subscriber
\* subscribes to node.get(key), subscribing hands it the node's own value and
\* nothing else, and no later set of the key on the ancestor hands it
\* anything.
C2_Case(i) ==
    /\ Len(ChainOf(i)) >= 2
    /\ subs[i].fresh
    /\ {1, 2} \subseteq subs[i].held

C2_OwnValueFirstAncestorNever ==
    \A i \in 1..Len(subs) : C2_Case(i) =>
        /\ (Returned("subscribe") /\ call.ret = i) =>
              subs[i].got = <<MapGet(data[Node(i)].items, Key(ChainOf(i)))>>
        /\ (Existing(i) /\ SetOf(data[Node(i)].parent, Key(ChainOf(i)))) =>
              subs[i].got = <<>>

\* The ancestor sets the key after such a subscription.
C2_Witness ==
    \E i \in 1..Len(subs) :
        /\ C2_Case(i)
        /\ Existing(i)
        /\ SetOf(data[Node(i)].parent, Key(ChainOf(i)))
        /\ SetEvent.value # call.before.data[SetEvent.on].items[1].value

\* C3: when a node holds no value for the key as a subscriber subscribes to
\* node.get(key), subscribing hands it the parent's value if the parent holds
\* one, and each later set of the key on the parent hands it that value as
\* long as the node has not had the key set.
C3_Case(i) ==
    /\ Len(ChainOf(i)) >= 2
    /\ subs[i].fresh
    /\ 1 \notin subs[i].held

C3_ParentValueWhileNoLocal ==
    \A i \in 1..Len(subs) : C3_Case(i) =>
        /\ (Returned("subscribe") /\ call.ret = i /\ 2 \in subs[i].held) =>
              subs[i].got =
                  <<MapGet(data[data[Node(i)].parent].items, Key(ChainOf(i)))>>
        /\ (/\ Existing(i)
            /\ SetOf(data[Node(i)].parent, Key(ChainOf(i)))
            /\ 1 \notin call.before.subs[i].sets) =>
              subs[i].got = <<SetEvent.value>>

\* The parent, which held the key when the subscriber subscribed, sets it
\* again and the subscriber is handed the new value.
C3_Witness ==
    \E i \in 1..Len(subs) :
        /\ C3_Case(i)
        /\ BareKey(i)
        /\ 2 \in subs[i].held
        /\ Existing(i)
        /\ SetOf(data[Node(i)].parent, Key(ChainOf(i)))
        /\ subs[i].got = <<SetEvent.value>>

\* C5: for a subscriber to node.get(key) with a bare key, each set of the
\* key on the node made after subscribing hands the subscriber exactly its
\* value, once, during the call; a set of another key on the node hands it
\* nothing.
C5_LocalSetsDeliveredOnce ==
    \A i \in 1..Len(subs) : (BareKey(i) /\ Existing(i) /\ Returned("set")) =>
        /\ SetOf(Node(i), Key(ChainOf(i))) => subs[i].got = <<SetEvent.value>>
        /\ (SetEvent.on = Node(i) /\ SetEvent.name # Key(ChainOf(i))) =>
              subs[i].got = <<>>

\* A second set of the key on the node, by path from its parent, after a
\* first one was handed over.
C5_Witness ==
    \E i \in 1..Len(subs) :
        /\ BareKey(i)
        /\ Existing(i)
        /\ SetOf(Node(i), Key(ChainOf(i)))
        /\ call.this # Node(i)
        /\ 1 \in call.before.subs[i].sets
        /\ subs[i].got = <<SetEvent.value>>

\* C6: local presence is evaluated when the subscriber subscribes, not when
\* get was called: subscribing hands over the value the node holds under the
\* key at that moment if it holds one, and no value of the node if it holds
\* none.
C6_PresenceReadWhenSubscribing ==
    \A i \in 1..Len(subs) : (Returned("subscribe") /\ call.ret = i) =>
        IF MapHas(data[Node(i)].items, Key(ChainOf(i)))
        THEN subs[i].got = <<MapGet(data[Node(i)].items, Key(ChainOf(i)))>>
        ELSE ~subs[i].local

\* C7: once a subscription to node.get(key) has been handed a value of the
\* node, no set on another Store hands it anything, whether or not the node
\* still holds the key (after node.delete(key) or node.clear()).
C7_InheritanceNeverResumed ==
    \A i \in 1..Len(subs) :
        (/\ Existing(i)
         /\ call.before.subs[i].local
         /\ Returned("set")
         /\ SetEvent.on # Node(i)) => subs[i].got = <<>>

\* The parent sets the key after the node, whose value the subscriber had
\* been handed, has lost it.
C7_Witness ==
    \E i \in 1..Len(subs) :
        /\ Existing(i)
        /\ call.before.subs[i].local
        /\ subs[i].fresh
        /\ SetOf(data[Node(i)].parent, Key(ChainOf(i)))
        /\ ~MapHas(data[Node(i)].items, Key(ChainOf(i)))

\* C4: a read by path is the read at the resolved node: a subscriber to
\* store.get('p/key') and a subscriber to store.for('p').get('key') that
\* subscribed at the same moment are handed the same values by every later
\* call; in particular a later store.set('p/key', v) hands v to both.
C4_PathReadIsReadAtResolvedNode ==
    \A i \in 1..Len(subs) : \A j \in 1..Len(subs) :
        (/\ Len(ChainOf(i)[1].name) = 2
         /\ BareKey(j)
         /\ Node(i) = Node(j)
         /\ Key(ChainOf(i)) = Key(ChainOf(j))
         /\ subs[i].fresh /\ subs[j].fresh
         /\ (j \in subs[i].mates \/ i \in subs[j].mates)) =>
            subs[i].got = subs[j].got

\* The levels of subscription i that have a listener for item-set of their
\* name on their Store.
Listening(i) ==
    {l \in 1..Len(ChainOf(i)) :
        Hears(subs[i], ChainOf(i), ChainOf(i)[l].store, Last(ChainOf(i)[l].name)) = l}

Unsubscribed(i) == Existing(i) /\ call.before.subs[i].live = 0

C30_NeverCompletesLocalSetsDelivered ==
    \A i \in 1..Len(subs) :
        /\ ~Completed(subs[i], ChainOf(i), 1)
        /\ (Existing(i) /\ SetOf(Node(i), Key(ChainOf(i)))) =>
              subs[i].got = <<SetEvent.value>>

\* Subscription a has been handed a value of its node; subscription b, of a
\* get of the same key on the same node, was made while the node did not
\* hold the key and the node has not had it set since.
C31_Case(a, b) ==
    /\ Existing(a) /\ Existing(b)
    /\ a # b
    /\ BareKey(a) /\ BareKey(b)
    /\ Node(a) = Node(b)
    /\ Len(ChainOf(a)) = 2
    /\ call.before.subs[a].local
    /\ subs[b].fresh
    /\ 1 \notin subs[b].held
    /\ 1 \notin call.before.subs[b].sets

\* C31: subscriptions are independent: when subscriber A has switched to
\* the local values of node for key, and subscriber B comes from a
\* node.get(key) made after node.delete(key), a set of the key on the parent
\* hands its value to B and nothing to A.
C31_OverrideIsPerSubscription ==
    \A a \in 1..Len(subs) : \A b \in 1..Len(subs) :
        (C31_Case(a, b) /\ SetOf(data[Node(a)].parent, Key(ChainOf(a)))) =>
            subs[b].got = <<SetEvent.value>> /\ subs[a].got = <<>>

\* A was handed a set of the node, the node deleted the key, B was made,
\* and now the parent sets the key.
C31_Witness ==
    \E a \in 1..Len(subs) : \E b \in 1..Len(subs) :
        /\ C31_Case(a, b)
        /\ a < b
        /\ 1 \in call.before.subs[a].sets
        /\ subs[b].held = {}
        /\ ~MapHas(data[Node(a)].items, Key(ChainOf(a)))
        /\ SetOf(data[Node(a)].parent, Key(ChainOf(a)))

\* The Store l - 1 parents above store, NoStore beyond the root.
RECURSIVE Up(_, _)
Up(store, l) ==
    IF l = 1 \/ store = NoStore THEN store ELSE Up(data[store].parent, l - 1)

\* The levels of subscription i nearer than level l that have produced a
\* value: they held the key when i subscribed, or have had it set since.
Nearer(i, l) ==
    {m \in 1..(l - 1) : m \in subs[i].held \/ m \in call.before.subs[i].sets}

\* C32: across three or more levels the nearest level wins.  For a
\* subscriber to node.get(key), get evaluated as it subscribes: subscribing
\* hands it the value of the nearest level that holds one and nothing else;
\* a later set of the key at a level hands it the value when no nearer level
\* has produced a value, and nothing once one has.
C32_NearestLevelWins ==
    \A i \in 1..Len(subs) : (BareKey(i) /\ subs[i].fresh) =>
        /\ (Returned("subscribe") /\ call.ret = i) =>
              subs[i].got =
                  (IF subs[i].held = {} THEN <<>>
                   ELSE LET l == CHOOSE m \in subs[i].held : \A n \in subs[i].held : m <= n
                        IN <<MapGet(data[Up(Node(i), l)].items, Key(ChainOf(i)))>>)
        /\ \A l \in 1..Len(data) :
              (Existing(i) /\ Up(Node(i), l) # NoStore
                 /\ SetOf(Up(Node(i), l), Key(ChainOf(i)))) =>
                  subs[i].got = (IF Nearer(i, l) = {} THEN <<SetEvent.value>> ELSE <<>>)

\* A subscriber to the grandchild's key that has been handed values of the
\* root and then of the child is handed nothing by a set on the root, the
\* grandchild not having held the key yet.
C32_Witness ==
    \E i \in 1..Len(subs) :
        /\ BareKey(i) /\ subs[i].fresh
        /\ Existing(i)
        /\ subs[i].held = {}
        /\ call.before.subs[i].sets = {2, 3}
        /\ Up(Node(i), 3) # NoStore
        /\ SetOf(Up(Node(i), 3), Key(ChainOf(i)))
        /\ subs[i].got = <<>>

====
